---- MODULE Spec2Model ----
(***************************************************************************)
(* Model of src/src/pipeline/orchestrator.py: the consensus decision       *)
(* cascade (make_consensus_decision), the oracle gate                      *)
(* (_check_florence_override), the score aggregation, the fallback status  *)
(* resolver and the page loop / page selection of process_document.        *)
(*                                                                         *)
(* Numbers: percentages and blur scores are integers; oracle confidences   *)
(* and stage scores are in hundredths (0.75 is 75, 92.86 is 9286).  Python *)
(* None is the integer None (-1): every signal of the program is >= 0.     *)
(***************************************************************************)
EXTENDS Integers, Sequences, FiniteSets, TLC

VARIABLES
    florence_classifier,  \* self.florence_classifier is set (oracle injected)
    blur_extreme_threshold, \* os.getenv('BLUR_EXTREME_THRESHOLD', 15)
    call,                 \* arguments of the make_consensus_decision call
    oracle_log,           \* answers classify_document gave during the call
    verdict,              \* what the call returned
    dpc,                  \* position of the decision call: "idle" | "returned"
    status_call,          \* what a page hands to its status resolution
    image_paths,          \* process_document: number of pages of the document
    page_results,         \* process_document: page_results
    stage_outputs,        \* per page, what the four stage calls produced
    best_page_result,     \* process_document: index of best_page_result, 0 is None
    best_page_score,      \* process_document: best_page_score, in hundredths
    result,               \* process_document: the returned document result
    pc                    \* process_document: "start" | "pages" | "done"

cvars == <<call, oracle_log, verdict, dpc, status_call>>
pvars == <<image_paths, page_results, stage_outputs, best_page_result,
          best_page_score, result, pc>>
vars == <<florence_classifier, blur_extreme_threshold, cvars, pvars>>

None == 0 - 1
NoResolution == <<None, None>>

\* ---------------------------------------------------------------------
\* Program constants
\* ---------------------------------------------------------------------
BLUR_EXTREME_THRESHOLD == 15

\* ---------------------------------------------------------------------
\* Failure messages.  The code only looks at the words a message contains.
\* ---------------------------------------------------------------------
MsgBlur == "Document extremely blurry"
MsgResolution == "Resolution too low"
MsgOcr == "OCR confidence too low"
MsgHandwriting == "Document is significantly handwritten (handwriting)"

HasBlurWord(f) == f = MsgBlur
HasHandwritingWord(f) == f = MsgHandwriting

RECURSIVE SelectSeqNot(_, _)
\* [f for f in s if f not in drop]
SelectSeqNot(s, drop) ==
    IF s = <<>> THEN <<>>
    ELSE IF Head(s) \in drop THEN SelectSeqNot(Tail(s), drop)
         ELSE <<Head(s)>> \o SelectSeqNot(Tail(s), drop)

Max(x, y) == IF x >= y THEN x ELSE y

Range(s) == {s[i] : i \in 1..Len(s)}

\* ---------------------------------------------------------------------
\* _check_florence_override
\* ---------------------------------------------------------------------
\* An oracle answer: what classify_document does when it is invoked.
\*   kind "raise"       it raises
\*   kind "error"       it returns a result carrying an error
\*   kind "printed"     is_printed = True with the given confidence
\*   kind "handwritten" is_printed = False with the given confidence
Answer(k, c) == [kind |-> k, confidence |-> c]

\* required_confidence without the floor of 0.60
RequiredConfidenceNoFloor(ocr_confidence, handwriting_pct) ==
    LET base == IF handwriting_pct >= 40 THEN 75
                ELSE IF handwriting_pct >= 35 THEN 70
                ELSE IF handwriting_pct >= 30 THEN 65
                ELSE 60
    IN IF ocr_confidence >= 80 THEN base - 10
       ELSE IF ocr_confidence >= 75 THEN base - 5
       ELSE base

\* required_confidence, in hundredths
RequiredConfidence(ocr_confidence, handwriting_pct) ==
    LET base == IF handwriting_pct >= 40 THEN 75
                ELSE IF handwriting_pct >= 35 THEN 70
                ELSE IF handwriting_pct >= 30 THEN 65
                ELSE 60
        lowered == IF ocr_confidence >= 80 THEN Max(60, base - 10)
                   ELSE IF ocr_confidence >= 75 THEN Max(60, base - 5)
                   ELSE base
    IN lowered

\* the gate without the OCR floors of the handwriting buckets
FlorenceGateWithoutBuckets(avail, image_path, ocr_confidence, handwriting_pct) ==
    /\ avail
    /\ image_path
    /\ ocr_confidence # None
    /\ ocr_confidence >= 50
    /\ handwriting_pct # None
    /\ handwriting_pct >= 20

\* The gate in front of the oracle: TRUE when classify_document is invoked.
FlorenceGate(avail, image_path, ocr_confidence, handwriting_pct) ==
    /\ avail
    /\ image_path
    /\ ocr_confidence # None
    /\ ocr_confidence >= 50
    /\ handwriting_pct # None
    /\ handwriting_pct >= 20
    /\ (handwriting_pct >= 40 => ocr_confidence >= 70)
    /\ (handwriting_pct >= 35 /\ handwriting_pct < 40 => ocr_confidence >= 65)
    /\ (handwriting_pct >= 30 /\ handwriting_pct < 35 => ocr_confidence >= 60)

\* _check_florence_override without the test of result.get('error'): the
\* is_printed = None of an error result reads as "not printed"
CheckFlorenceOverrideNoErrorCheck(image_path, ocr_confidence, handwriting_pct, ans) ==
    IF ~FlorenceGate(florence_classifier, image_path, ocr_confidence, handwriting_pct)
    THEN [called |-> FALSE, ret |-> "None", confidence |-> 0]
    ELSE IF ans.kind = "raise"
    THEN [called |-> TRUE, ret |-> "None", confidence |-> 0]
    ELSE IF ans.kind = "handwritten" \/ ans.kind = "error"
    THEN [called |-> TRUE, ret |-> "handwritten", confidence |-> ans.confidence]
    ELSE IF ans.confidence < RequiredConfidence(ocr_confidence, handwriting_pct)
    THEN [called |-> TRUE, ret |-> "None", confidence |-> 0]
    ELSE [called |-> TRUE, ret |-> "printed", confidence |-> ans.confidence]

\* Result of _check_florence_override: called says whether the oracle was
\* invoked; ret is "None", "printed" (approved override) or "handwritten".
CheckFlorenceOverride(image_path, ocr_confidence, handwriting_pct, ans) ==
    IF ~FlorenceGate(florence_classifier, image_path, ocr_confidence, handwriting_pct)
    THEN [called |-> FALSE, ret |-> "None", confidence |-> 0]
    ELSE IF ans.kind = "raise" \/ ans.kind = "error"
    THEN [called |-> TRUE, ret |-> "None", confidence |-> 0]
    ELSE IF ans.kind = "handwritten"
    THEN [called |-> TRUE, ret |-> "handwritten", confidence |-> ans.confidence]
    ELSE IF ans.confidence < RequiredConfidence(ocr_confidence, handwriting_pct)
    THEN [called |-> TRUE, ret |-> "None", confidence |-> 0]
    ELSE [called |-> TRUE, ret |-> "printed", confidence |-> ans.confidence]

\* ---------------------------------------------------------------------
\* make_consensus_decision
\* ---------------------------------------------------------------------
\* a: the arguments.  hw: the local handwriting_pct (the code may reset it
\* to None).  n: oracle invocations so far.  orc: the oracle's answers, in
\* the order of invocation.
\* status "NONE" is the return value None, "RAISE" an uncaught TypeError.
Verdict(status, priority, rule, n, override) ==
    [status |-> status, priority |-> priority, rule |-> rule,
     calls |-> n, florence_override |-> override]

Rejected(rule, n) == Verdict("REJECTED", "N/A", rule, n, FALSE)
Accepted(priority, rule, n) == Verdict("ACCEPTED", priority, rule, n, FALSE)
AcceptedByFlorence(rule, n) == Verdict("ACCEPTED", "Normal", rule, n, TRUE)
Calls(n, f) == IF f.called THEN n + 1 ELSE n

IsBlurry(a) == a.blur_score # None /\ a.blur_score < 60
IsVeryBlurry(a) == a.blur_score # None /\ a.blur_score < 30

\* lines 561-596
DisagreementZoneC(a, hw, n) ==
    IF hw # None /\ hw > 20 /\ a.ocr_confidence # None /\ a.ocr_confidence > 70
    THEN IF IsBlurry(a) THEN Accepted("Normal", "zoneC-blurry", n)
         ELSE IF a.is_concentrated THEN Accepted("Normal", "zoneC-concentrated", n)
         ELSE IF a.is_spread_out THEN Rejected("zoneC-spread", n)
         ELSE Accepted("Normal", "zoneC-unclear", n)
    ELSE Verdict("NONE", "-", "abstain", n, FALSE)

\* lines 551-558
DisagreementZoneB(a, hw, n) ==
    IF /\ a.ocr_confidence # None /\ a.ocr_confidence < 50
       /\ a.blur_score # None /\ a.blur_score > 150
       /\ a.resolution # NoResolution /\ a.resolution[1] > 1000
    THEN Verdict("FLAG_FOR_REVIEW", "Low", "zoneB", n, FALSE)
    ELSE DisagreementZoneC(a, hw, n)

\* zone A flagging with a priority of its own
DisagreementZoneAUrgent(a, hw, n) ==
    IF /\ a.ocr_confidence # None /\ a.ocr_confidence > 75
       /\ hw # None /\ hw > 25 /\ hw < 40
    THEN IF a.is_concentrated THEN Accepted("Normal", "zoneA-concentrated", n)
         ELSE Verdict("FLAG_FOR_REVIEW", "Urgent", "zoneA-review", n, FALSE)
    ELSE DisagreementZoneB(a, hw, n)

\* lines 524-548
DisagreementZoneA(a, hw, n) ==
    IF /\ a.ocr_confidence # None /\ a.ocr_confidence > 75
       /\ hw # None /\ hw > 25 /\ hw < 40
    THEN IF a.is_concentrated THEN Accepted("Normal", "zoneA-concentrated", n)
         ELSE Verdict("FLAG_FOR_REVIEW", "Medium", "zoneA-review", n, FALSE)
    ELSE DisagreementZoneB(a, hw, n)

\* lines 499-516; the FLAG_FOR_REVIEW message formats ocr_confidence with
\* :.1f, which raises TypeError when it is None
SignatureHandling(a, hw, n) ==
    IF hw # None /\ hw > 15 /\ hw < 30 /\ a.is_concentrated
    THEN IF a.ocr_confidence # None /\ a.ocr_confidence >= 30
         THEN Accepted("Normal", "signature", n)
         ELSE IF a.ocr_confidence = None
         THEN Verdict("RAISE", "-", "signature-format", n, FALSE)
         ELSE Verdict("FLAG_FOR_REVIEW", "Low", "signature-low-ocr", n, FALSE)
    ELSE DisagreementZoneA(a, hw, n)

\* ClearAcceptance asking for blur_score > 150
ClearAcceptanceSharper(a, hw, n) ==
    IF /\ a.ocr_confidence # None /\ a.ocr_confidence > 80
       /\ hw # None /\ hw < 15
       /\ a.blur_score # None /\ a.blur_score > 150
       /\ a.resolution # NoResolution /\ a.resolution[1] > 800
    THEN Accepted("High", "clear-acceptance", n)
    ELSE SignatureHandling(a, hw, n)

\* lines 485-493
ClearAcceptance(a, hw, n) ==
    IF /\ a.ocr_confidence # None /\ a.ocr_confidence > 80
       /\ hw # None /\ hw < 15
       /\ a.blur_score # None /\ a.blur_score > 100
       /\ a.resolution # NoResolution /\ a.resolution[1] > 800
    THEN Accepted("High", "clear-acceptance", n)
    ELSE SignatureHandling(a, hw, n)

\* lines 436-478
StageCriticalFailures(a, hw, n, orc) ==
    LET all_critical == a.stage1_critical \o a.stage2_critical \o a.stage3_critical
        is_readable == a.ocr_confidence # None /\ a.ocr_confidence >= 50
        is_extreme_blur == a.blur_score # None /\ a.blur_score < blur_extreme_threshold
        handwriting_critical == SelectSeq(all_critical, HasHandwritingWord)
        consult == handwriting_critical # <<>> /\ a.image_path
        f == IF consult
             THEN CheckFlorenceOverride(a.image_path, a.ocr_confidence, hw, orc[n + 1])
             ELSE [called |-> FALSE, ret |-> "None", confidence |-> 0]
        m == Calls(n, f)
        Real(x) == ~HasBlurWord(x) /\ ~HasHandwritingWord(x)
        filtered_critical == SelectSeq(all_critical, Real)
    IN IF Len(all_critical) > 0
       THEN IF is_readable /\ ~is_extreme_blur
            THEN IF Len(filtered_critical) = 0
                 THEN Verdict("NONE", "-", "critical-filtered", m, FALSE)
                 ELSE Rejected("stage-critical", m)
            ELSE Rejected("stage-critical", n)
       ELSE ClearAcceptance(a, hw, n)

\* the blur tier letting a readable page pass before it looks for extreme blur
BlurTierReadableFirst(a, hw, n, orc) ==
    IF a.blur_score # None /\ a.blur_score < 30
    THEN IF a.ocr_confidence # None /\ a.ocr_confidence >= 50
         THEN StageCriticalFailures(a, hw, n, orc)
         ELSE IF a.blur_score < blur_extreme_threshold
         THEN Rejected("extreme-blur", n)
         ELSE IF a.ocr_confidence # None /\ a.ocr_confidence >= 30
         THEN Verdict("FLAG_FOR_REVIEW", "Low", "blur-review", n, FALSE)
         ELSE IF a.ocr_confidence = None
         THEN Verdict("RAISE", "-", "blur-format", n, FALSE)
         ELSE Rejected("blur-unreadable", n)
    ELSE StageCriticalFailures(a, hw, n, orc)

\* lines 401-433; the last message formats ocr_confidence with :.1f, which
\* raises TypeError when it is None
BlurTier(a, hw, n, orc) ==
    IF a.blur_score # None /\ a.blur_score < 30
    THEN IF a.blur_score < blur_extreme_threshold
         THEN Rejected("extreme-blur", n)
         ELSE IF a.ocr_confidence # None /\ a.ocr_confidence >= 50
         THEN StageCriticalFailures(a, hw, n, orc)
         ELSE IF a.ocr_confidence # None /\ a.ocr_confidence >= 30
         THEN Verdict("FLAG_FOR_REVIEW", "Low", "blur-review", n, FALSE)
         ELSE IF a.ocr_confidence = None
         THEN Verdict("RAISE", "-", "blur-format", n, FALSE)
         ELSE Rejected("blur-unreadable", n)
    ELSE StageCriticalFailures(a, hw, n, orc)

\* PhysicalFloor rejecting only when both sides are too small
PhysicalFloorBothSides(a, hw, n, orc) ==
    IF a.resolution # NoResolution /\ (a.resolution[1] < 400 /\ a.resolution[2] < 300)
    THEN Rejected("resolution", n)
    ELSE BlurTier(a, hw, n, orc)

\* lines 390-397
PhysicalFloor(a, hw, n, orc) ==
    IF a.resolution # NoResolution /\ (a.resolution[1] < 400 \/ a.resolution[2] < 300)
    THEN Rejected("resolution", n)
    ELSE BlurTier(a, hw, n, orc)

\* the spread-out tier trusting a high OCR confidence without confirmation
SpreadOutHandwritingTrustsOcr(a, hw, n, orc) ==
    IF hw # None /\ hw >= 25 /\ a.is_spread_out
    THEN IF hw >= 40
         THEN IF a.ocr_confidence # None /\ a.ocr_confidence >= 80
              THEN LET f == CheckFlorenceOverride(a.image_path, a.ocr_confidence, hw, orc[n + 1])
                   IN IF f.ret = "printed"
                      THEN AcceptedByFlorence("spread-florence", Calls(n, f))
                      ELSE Rejected("spread-high", Calls(n, f))
              ELSE Rejected("spread-high", n)
         ELSE IF a.ocr_confidence # None /\ a.ocr_confidence >= 60
         THEN LET f == CheckFlorenceOverride(a.image_path, a.ocr_confidence, hw, orc[n + 1])
              IN IF f.ret = "printed"
                 THEN AcceptedByFlorence("spread-florence", Calls(n, f))
                 ELSE IF a.ocr_confidence >= 75
                 THEN Accepted("Normal", "spread-ocr", Calls(n, f))
                 ELSE Rejected("spread-medium", Calls(n, f))
         ELSE Rejected("spread-low-ocr", n)
    ELSE PhysicalFloor(a, hw, n, orc)

\* lines 316-387
SpreadOutHandwriting(a, hw, n, orc) ==
    IF hw # None /\ hw >= 25 /\ a.is_spread_out
    THEN IF hw >= 40
         THEN IF a.ocr_confidence # None /\ a.ocr_confidence >= 80
              THEN LET f == CheckFlorenceOverride(a.image_path, a.ocr_confidence, hw, orc[n + 1])
                   IN IF f.ret = "printed"
                      THEN AcceptedByFlorence("spread-florence", Calls(n, f))
                      ELSE Rejected("spread-high", Calls(n, f))
              ELSE Rejected("spread-high", n)
         ELSE IF a.ocr_confidence # None /\ a.ocr_confidence >= 60
         THEN LET f == CheckFlorenceOverride(a.image_path, a.ocr_confidence, hw, orc[n + 1])
              IN IF f.ret = "printed"
                 THEN AcceptedByFlorence("spread-florence", Calls(n, f))
                 ELSE Rejected("spread-medium", Calls(n, f))
         ELSE Rejected("spread-low-ocr", n)
    ELSE PhysicalFloor(a, hw, n, orc)

\* lines 290-313: a handwritten answer is not looked at here
BorderlineHandwriting(a, hw, n, orc) ==
    IF /\ hw # None /\ hw >= 30 /\ hw < 40
       /\ a.ocr_confidence # None /\ a.ocr_confidence >= 60
    THEN LET f == CheckFlorenceOverride(a.image_path, a.ocr_confidence, hw, orc[n + 1])
         IN IF f.ret = "printed"
            THEN AcceptedByFlorence("borderline-florence", Calls(n, f))
            ELSE SpreadOutHandwriting(a, hw, Calls(n, f), orc)
    ELSE SpreadOutHandwriting(a, hw, n, orc)

\* HighHandwriting trusting OCR from 70 on when the oracle does not confirm
HighHandwritingTrustFrom70(a, hw, n, orc) ==
    IF hw # None /\ hw >= 40
    THEN IF a.ocr_confidence # None /\ a.ocr_confidence >= 70
         THEN LET f == CheckFlorenceOverride(a.image_path, a.ocr_confidence, hw, orc[n + 1])
              IN IF f.ret = "handwritten"
                 THEN Rejected("high-handwriting-florence", Calls(n, f))
                 ELSE IF f.ret = "printed"
                 THEN AcceptedByFlorence("high-handwriting-florence", Calls(n, f))
                 ELSE Accepted("Normal", "high-handwriting-ocr", Calls(n, f))
         ELSE Rejected("high-handwriting", n)
    ELSE BorderlineHandwriting(a, hw, n, orc)

\* lines 223-287
HighHandwriting(a, hw, n, orc) ==
    IF hw # None /\ hw >= 40
    THEN IF a.ocr_confidence # None /\ a.ocr_confidence >= 70
         THEN LET f == CheckFlorenceOverride(a.image_path, a.ocr_confidence, hw, orc[n + 1])
              IN IF f.ret = "handwritten"
                 THEN Rejected("high-handwriting-florence", Calls(n, f))
                 ELSE IF f.ret = "printed"
                 THEN AcceptedByFlorence("high-handwriting-florence", Calls(n, f))
                 ELSE IF a.ocr_confidence >= 75
                 THEN Accepted("Normal", "high-handwriting-ocr", Calls(n, f))
                 ELSE Rejected("high-handwriting", Calls(n, f))
         ELSE Rejected("high-handwriting", n)
    ELSE BorderlineHandwriting(a, hw, n, orc)

\* Unreadable with the floor at 15 instead of 20
UnreadableLowerFloor(a, hw, n, orc) ==
    IF a.ocr_confidence # None /\ a.ocr_confidence < 15
    THEN Rejected("unreadable", n)
    ELSE HighHandwriting(a, hw, n, orc)

\* lines 214-219
Unreadable(a, hw, n, orc) ==
    IF a.ocr_confidence # None /\ a.ocr_confidence < 20
    THEN Rejected("unreadable", n)
    ELSE HighHandwriting(a, hw, n, orc)

\* the discount applied to every blurry page (blur_score < 60)
BlurryDiscountWhenBlurry(a, hw, n, orc) ==
    LET hw2 == IF /\ IsBlurry(a) /\ a.ocr_confidence # None
                  /\ ~(a.ocr_confidence >= 50) /\ a.ocr_confidence >= 30
               THEN None ELSE hw
    IN Unreadable(a, hw2, n, orc)

\* lines 191-207: handwriting_pct is reset to None for a very blurry page with
\* 30 <= ocr_confidence < 50
BlurryDiscount(a, hw, n, orc) ==
    LET hw2 == IF /\ IsVeryBlurry(a) /\ a.ocr_confidence # None
                  /\ ~(a.ocr_confidence >= 50) /\ a.ocr_confidence >= 30
               THEN None ELSE hw
    IN Unreadable(a, hw2, n, orc)

\* the high-OCR tier rejecting whenever the oracle does not confirm and the
\* trust condition fails
HighOcrTrustElseRejects(a, orc) ==
    LET hw == a.handwriting_pct IN
    IF /\ a.ocr_confidence # None /\ a.ocr_confidence >= 80
       /\ hw # None /\ hw >= 40
    THEN LET f == CheckFlorenceOverride(a.image_path, a.ocr_confidence, hw, orc[1])
             n == Calls(0, f)
         IN IF f.ret = "handwritten" THEN Rejected("high-ocr-florence", n)
            ELSE IF f.ret = "printed" THEN AcceptedByFlorence("high-ocr-florence", n)
            ELSE IF a.ocr_confidence >= 85 /\ hw < 50 THEN Accepted("Normal", "high-ocr-trust", n)
            ELSE Rejected("high-ocr-too-handwritten", n)
    ELSE BlurryDiscount(a, hw, 0, orc)

\* lines 117-184; with 80 <= ocr_confidence < 85 and 40 <= handwriting_pct < 50
\* and no oracle verdict no branch returns and the cascade goes on
HighOcrTrust(a, orc) ==
    LET hw == a.handwriting_pct IN
    IF /\ a.ocr_confidence # None /\ a.ocr_confidence >= 80
       /\ hw # None /\ hw >= 40
    THEN LET f == CheckFlorenceOverride(a.image_path, a.ocr_confidence, hw, orc[1])
             n == Calls(0, f)
         IN IF f.ret = "handwritten" THEN Rejected("high-ocr-florence", n)
            ELSE IF f.ret = "printed" THEN AcceptedByFlorence("high-ocr-florence", n)
            ELSE IF a.ocr_confidence >= 85 /\ hw < 50 THEN Accepted("Normal", "high-ocr-trust", n)
            ELSE IF hw >= 50 THEN Rejected("high-ocr-too-handwritten", n)
            ELSE BlurryDiscount(a, hw, n, orc)
    ELSE BlurryDiscount(a, hw, 0, orc)

make_consensus_decision(a, orc) == HighOcrTrust(a, orc)

\* ---------------------------------------------------------------------
\* calculate_final_quality_score and determine_status
\* ---------------------------------------------------------------------
\* round(num / den) to the nearest integer, ties to even, as Python's round
RoundHalfEven(num, den) ==
    LET q == num \div den
        r == num % den
    IN IF 2 * r < den THEN q
       ELSE IF 2 * r > den THEN q + 1
       ELSE IF q % 2 = 0 THEN q ELSE q + 1

\* r.get('stage_score', 0) of the first result of that stage, 0 without one
StageScore(stage_results, stage) ==
    LET found == SelectSeq(stage_results, LAMBDA r : r.stage = stage)
    IN IF found = <<>> THEN 0
       ELSE IF found[1].stage_score = None THEN 0
       ELSE found[1].stage_score

\* The weighted sum in units of 1/10000: stage scores are in hundredths and
\* the weights 0.35, 0.40, 0.20, 0.05 in hundredths.
WeightedSum(stage_results) ==
    StageScore(stage_results, 1) * 35 + StageScore(stage_results, 2) * 40
    + StageScore(stage_results, 3) * 20 + StageScore(stage_results, 4) * 5

\* a score that truncates to 2 decimals instead of rounding
FinalScoreTruncated(stage_results) == WeightedSum(stage_results) \div 100

\* round(final_score, 2), in hundredths
calculate_final_quality_score(stage_results) ==
    RoundHalfEven(WeightedSum(stage_results), 100)

SCORE_ACCEPT_THRESHOLD == 70
SCORE_REVIEW_THRESHOLD == 50

\* determine_status looking at the score before the critical failures
determine_status_by_score(final_score, has_critical_failures, ocr_confidence) ==
    LET Status(st, pr, rule) == Verdict(st, pr, rule, 0, FALSE)
        HighFrom(bar) == IF final_score >= bar THEN "High" ELSE "Normal"
    IN IF final_score >= SCORE_ACCEPT_THRESHOLD * 100
       THEN Status("ACCEPTED", HighFrom(8500), "score-accept")
       ELSE IF has_critical_failures
       THEN Status("REJECTED", "N/A", "score-critical")
       ELSE IF final_score >= SCORE_REVIEW_THRESHOLD * 100
       THEN Status("FLAG_FOR_REVIEW", "Low", "score-review")
       ELSE Status("REJECTED", "N/A", "score-low")

\* determine_status without the leniency: only the configured thresholds
determine_status_strict(final_score, has_critical_failures, ocr_confidence) ==
    LET Status(st, pr, rule) == Verdict(st, pr, rule, 0, FALSE)
        HighFrom(bar) == IF final_score >= bar THEN "High" ELSE "Normal"
    IN IF has_critical_failures
       THEN Status("REJECTED", "N/A", "score-critical")
       ELSE IF final_score >= SCORE_ACCEPT_THRESHOLD * 100
       THEN Status("ACCEPTED", HighFrom(8500), "score-accept")
       ELSE IF final_score >= SCORE_REVIEW_THRESHOLD * 100
       THEN Status("FLAG_FOR_REVIEW", "Low", "score-review")
       ELSE Status("REJECTED", "N/A", "score-low")

\* final_score in hundredths; the result is the status dictionary
determine_status(final_score, has_critical_failures, ocr_confidence) ==
    LET Status(st, pr, rule) == Verdict(st, pr, rule, 0, FALSE)
        HighFrom(bar) == IF final_score >= bar THEN "High" ELSE "Normal"
    IN IF has_critical_failures
       THEN Status("REJECTED", "N/A", "score-critical")
       ELSE IF /\ ocr_confidence # None /\ ocr_confidence >= 80
               /\ final_score >= 5500 /\ ~has_critical_failures
       THEN Status("ACCEPTED", HighFrom(7500), "score-high-ocr")
       ELSE IF /\ ocr_confidence # None /\ ~(ocr_confidence >= 80) /\ ocr_confidence >= 60
               /\ final_score >= 6000 /\ ~has_critical_failures
       THEN Status("ACCEPTED", HighFrom(8500), "score-good-ocr")
       ELSE IF \/ final_score >= SCORE_ACCEPT_THRESHOLD * 100
               \/ (final_score >= (SCORE_ACCEPT_THRESHOLD - 10) * 100
                   /\ ~has_critical_failures)
       THEN Status("ACCEPTED", HighFrom(8500), "score-accept")
       ELSE IF final_score >= SCORE_REVIEW_THRESHOLD * 100
       THEN Status("FLAG_FOR_REVIEW", "Low", "score-review")
       ELSE Status("REJECTED", "N/A", "score-low")

\* lines 1016-1020: the scoring fallback decides when the consensus abstained
PageStatusInfo(consensus_status, final_score, has_critical_failures, ocr_confidence) ==
    IF consensus_status.status = "NONE"
    THEN determine_status(final_score, has_critical_failures, ocr_confidence)
    ELSE consensus_status

\* ---------------------------------------------------------------------
\* The stage analyzers, as far as process_document reads their results
\* ---------------------------------------------------------------------
MsgCorrupted == "Document appears corrupted or distorted"
WarnBlur == "Document slightly blurry - may affect readability"
WarnResolution == "Resolution below recommended - may affect quality"
WarnOcr == "Average OCR confidence below recommended"
WarnHandwriting == "Handwriting detected"
WarnReadableBlur == "Document is slightly blurry but readable"
WarnUnreliableHandwriting == "Handwriting detection unreliable due to blur"
MsgPageError == "Error processing page"

\* a stage result; a key the result does not carry is None / empty
StageResult(stage, outcome, passed, score, crit, warn) ==
    [stage |-> stage, outcome |-> outcome, passed |-> passed, stage_score |-> score,
     critical_failures |-> crit, warnings |-> warn,
     blur_score |-> None, resolution |-> NoResolution,
     average_confidence |-> None, handwriting_percentage |-> None,
     is_concentrated |-> FALSE, is_spread_out |-> FALSE]

\* the placeholder process_document records when stage.process raises
Placeholder(stage) == StageResult(stage, "raised", FALSE, None, <<>>, <<>>)

\* the result a stage returns when it cannot load the image / run OCR
StageLoadError(stage) == StageResult(stage, "error", FALSE, None, <<>>, <<>>)

\* BasicQualityChecker.process on an image with the given blur score and
\* resolution; corrupted says whether the corruption check fails critically;
\* brightness, contrast, white space and skew pass.
Stage1Process(blur, res, corrupted) ==
    LET res_critical == res[1] < 400 \/ res[2] < 300
        res_warning == ~res_critical /\ (res[1] < 800 \/ res[2] < 600)
        blur_critical == blur < 30
        blur_warning == ~blur_critical /\ blur < 60
        crit == (IF res_critical THEN <<MsgResolution>> ELSE <<>>)
                \o (IF blur_critical THEN <<MsgBlur>> ELSE <<>>)
                \o (IF corrupted THEN <<MsgCorrupted>> ELSE <<>>)
        warn == (IF res_warning THEN <<WarnResolution>> ELSE <<>>)
                \o (IF blur_warning THEN <<WarnBlur>> ELSE <<>>)
        warned == Len(warn)
        passes == 7 - Len(crit) - warned
    IN [StageResult(1, "ok", crit = <<>>,
                    RoundHalfEven(10000 * (2 * passes + warned), 14), crit, warn)
        EXCEPT !.blur_score = blur, !.resolution = res]

\* OCRConfidenceAnalyzer.process with the given average confidence; the word,
\* region and character checks pass.
Stage2Process(avg_confidence) ==
    IF avg_confidence < 25
    THEN [StageResult(2, "ok", FALSE, 0, <<MsgOcr>>, <<>>)
          EXCEPT !.average_confidence = avg_confidence]
    ELSE LET ok == avg_confidence >= 45
             passed_checks == IF ok THEN 4 ELSE 3
         IN [StageResult(2, "ok", ok, 40 * avg_confidence + 1500 * passed_checks,
                         <<>>, IF ok THEN <<>> ELSE <<WarnOcr>>)
             EXCEPT !.average_confidence = avg_confidence]

\* HandwritingDetector.process with the given handwriting percentage and
\* distribution <<is_concentrated, is_spread_out>>
Stage3Process(handwriting_pct, dist) ==
    LET r == IF handwriting_pct >= 40 \/ (dist[2] /\ handwriting_pct >= 25)
             THEN StageResult(3, "ok", FALSE, 0, <<MsgHandwriting>>, <<>>)
             ELSE IF dist[1] /\ handwriting_pct < 30
             THEN StageResult(3, "ok", TRUE, Max(8000, 10000 - handwriting_pct * 50),
                              <<>>, <<WarnHandwriting>>)
             ELSE IF handwriting_pct >= 20 /\ handwriting_pct < 30
             THEN StageResult(3, "ok", TRUE, Max(6000, 10000 - handwriting_pct * 150),
                              <<>>, <<WarnHandwriting>>)
             ELSE IF handwriting_pct >= 10
             THEN StageResult(3, "ok", TRUE, Max(8500, 10000 - handwriting_pct * 150),
                              <<>>, <<WarnHandwriting>>)
             ELSE StageResult(3, "ok", TRUE, 10000, <<>>, <<>>)
    IN [r EXCEPT !.handwriting_percentage = handwriting_pct,
                 !.is_concentrated = dist[1], !.is_spread_out = dist[2]]

\* BRISQUEQualityScorer.process with the given BRISQUE score below 50
Stage4Process(brisque_score) ==
    StageResult(4, "ok", TRUE, 100 * Max(0, 100 - brisque_score), <<>>, <<>>)

\* a filter that reclassifies in the page-level lists only and leaves the
\* stage results as the analyzers returned them
FalsePositiveFilterPageOnly(st, page_ocr_confidence, page_blur_score) ==
    LET page_critical_failures ==
            st[1].critical_failures \o st[2].critical_failures
            \o st[3].critical_failures \o st[4].critical_failures
        page_warnings == st[1].warnings \o st[2].warnings
                         \o st[3].warnings \o st[4].warnings
        readable == /\ page_ocr_confidence # None /\ page_ocr_confidence >= 50
                    /\ ~(page_blur_score # None
                         /\ page_blur_score < blur_extreme_threshold)
        drop_blur == readable /\ SelectSeq(st[1].critical_failures, HasBlurWord) # <<>>
        drop_hw == /\ readable /\ page_blur_score # None /\ page_blur_score < 30
                   /\ SelectSeq(st[3].critical_failures, HasHandwritingWord) # <<>>
        dropped == (IF drop_blur THEN {MsgBlur} ELSE {})
                   \cup (IF drop_hw THEN {MsgHandwriting} ELSE {})
    IN [stage_results |-> st,
        critical_failures |-> SelectSeqNot(page_critical_failures, dropped),
        warnings |-> page_warnings
                     \o (IF drop_blur THEN <<WarnReadableBlur>> ELSE <<>>)
                     \o (IF drop_hw THEN <<WarnUnreliableHandwriting>> ELSE <<>>),
        raised |-> drop_blur /\ page_blur_score = None]

\* a filter that drops handwriting failures on every readable page, blurry or not
FalsePositiveFilterAnyBlur(st, page_ocr_confidence, page_blur_score) ==
    LET page_critical_failures ==
            st[1].critical_failures \o st[2].critical_failures
            \o st[3].critical_failures \o st[4].critical_failures
        page_warnings ==
            st[1].warnings \o st[2].warnings \o st[3].warnings \o st[4].warnings
        page_is_very_blurry == page_blur_score # None /\ page_blur_score < 30
        page_is_extreme_blur ==
            page_blur_score # None /\ page_blur_score < blur_extreme_threshold
        page_is_readable == page_ocr_confidence # None /\ page_ocr_confidence >= 50
        blur_critical_failures == SelectSeq(st[1].critical_failures, HasBlurWord)
        handwriting_critical_failures ==
            SelectSeq(st[3].critical_failures, HasHandwritingWord)
        drop_blur == page_is_readable /\ ~page_is_extreme_blur
                     /\ blur_critical_failures # <<>>
        drop_hw == page_is_readable /\ ~page_is_extreme_blur
                   /\ handwriting_critical_failures # <<>>
        dropped == (IF drop_blur THEN Range(blur_critical_failures) ELSE {})
                   \cup (IF drop_hw THEN Range(handwriting_critical_failures) ELSE {})
        s1 == IF drop_blur
              THEN [st[1] EXCEPT
                      !.critical_failures = SelectSeqNot(@, Range(blur_critical_failures)),
                      !.warnings = Append(@, WarnReadableBlur)]
              ELSE st[1]
        s3 == IF drop_hw
              THEN [st[3] EXCEPT
                      !.critical_failures =
                          SelectSeqNot(@, Range(handwriting_critical_failures)),
                      !.warnings = Append(@, WarnUnreliableHandwriting)]
              ELSE st[3]
    IN [stage_results |-> <<s1, st[2], s3, st[4]>>,
        critical_failures |-> SelectSeqNot(page_critical_failures, dropped),
        warnings |-> page_warnings
                     \o (IF drop_blur THEN <<WarnReadableBlur>> ELSE <<>>)
                     \o (IF drop_hw THEN <<WarnUnreliableHandwriting>> ELSE <<>>),
        raised |-> (drop_blur \/ drop_hw) /\ page_blur_score = None]

\* ---------------------------------------------------------------------
\* process_document: one iteration of the page loop
\* ---------------------------------------------------------------------
\* lines 944-992: the false-positive filter.  st is <<stage1, .., stage4>> as
\* appended to page_stage_results; the filter rewrites the stage 1 and stage 3
\* results in place.  raised: a warning message formats a None blur score.
FalsePositiveFilter(st, page_ocr_confidence, page_blur_score) ==
    LET page_critical_failures ==
            st[1].critical_failures \o st[2].critical_failures
            \o st[3].critical_failures \o st[4].critical_failures
        page_warnings ==
            st[1].warnings \o st[2].warnings \o st[3].warnings \o st[4].warnings
        page_is_very_blurry == page_blur_score # None /\ page_blur_score < 30
        page_is_extreme_blur ==
            page_blur_score # None /\ page_blur_score < blur_extreme_threshold
        page_is_readable == page_ocr_confidence # None /\ page_ocr_confidence >= 50
        blur_critical_failures == SelectSeq(st[1].critical_failures, HasBlurWord)
        handwriting_critical_failures ==
            SelectSeq(st[3].critical_failures, HasHandwritingWord)
        drop_blur == page_is_readable /\ ~page_is_extreme_blur
                     /\ blur_critical_failures # <<>>
        drop_hw == page_is_readable /\ ~page_is_extreme_blur /\ page_is_very_blurry
                   /\ handwriting_critical_failures # <<>>
        dropped == (IF drop_blur THEN Range(blur_critical_failures) ELSE {})
                   \cup (IF drop_hw THEN Range(handwriting_critical_failures) ELSE {})
        s1 == IF drop_blur
              THEN [st[1] EXCEPT
                      !.critical_failures = SelectSeqNot(@, Range(blur_critical_failures)),
                      !.warnings = Append(@, WarnReadableBlur)]
              ELSE st[1]
        s3 == IF drop_hw
              THEN [st[3] EXCEPT
                      !.critical_failures =
                          SelectSeqNot(@, Range(handwriting_critical_failures)),
                      !.warnings = Append(@, WarnUnreliableHandwriting)]
              ELSE st[3]
    IN [stage_results |-> <<s1, st[2], s3, st[4]>>,
        critical_failures |-> SelectSeqNot(page_critical_failures, dropped),
        warnings |-> page_warnings
                     \o (IF drop_blur THEN <<WarnReadableBlur>> ELSE <<>>)
                     \o (IF drop_hw THEN <<WarnUnreliableHandwriting>> ELSE <<>>),
        raised |-> (drop_blur \/ drop_hw) /\ page_blur_score = None]

\* a page-error record that loses the page's number
PageErrorResultUnnumbered(page_num, total) ==
    [page_number |-> 0, total_pages |-> total,
     final_quality_score |-> 0, has_critical_failures |-> TRUE,
     critical_failures |-> <<MsgPageError>>, warnings |-> <<>>,
     status |-> "REJECTED", priority |-> "N/A", rule |-> "page-error",
     ocr_confidence |-> None, handwriting_percentage |-> None,
     stage_results |-> <<>>, florence_override |-> FALSE,
     oracle_calls |-> 0, raised |-> TRUE]

\* a page-error record that only flags the page for review
PageErrorResultFlagged(page_num, total) ==
    [page_number |-> page_num, total_pages |-> total,
     final_quality_score |-> 0, has_critical_failures |-> TRUE,
     critical_failures |-> <<MsgPageError>>, warnings |-> <<>>,
     status |-> "FLAG_FOR_REVIEW", priority |-> "Low", rule |-> "page-error",
     ocr_confidence |-> None, handwriting_percentage |-> None,
     stage_results |-> <<>>, florence_override |-> FALSE,
     oracle_calls |-> 0, raised |-> TRUE]

\* lines 1094-1107: the page result recorded when processing the page raised
PageErrorResult(page_num, total) ==
    [page_number |-> page_num, total_pages |-> total,
     final_quality_score |-> 0, has_critical_failures |-> TRUE,
     critical_failures |-> <<MsgPageError>>, warnings |-> <<>>,
     status |-> "REJECTED", priority |-> "N/A", rule |-> "page-error",
     ocr_confidence |-> None, handwriting_percentage |-> None,
     stage_results |-> <<>>, florence_override |-> FALSE,
     oracle_calls |-> 0, raised |-> TRUE]

\* lines 850-1044: the page result of page page_num of total.  st is what the
\* four stages returned (a Placeholder for a stage that raised), orc the
\* oracle's answers in order of invocation.
ProcessPageResult(page_num, total, st, orc) ==
    LET page_ocr_confidence == st[2].average_confidence
        page_handwriting_pct == st[3].handwriting_percentage
        page_blur_score == st[1].blur_score
        page_resolution == st[1].resolution
        flt == FalsePositiveFilter(st, page_ocr_confidence, page_blur_score)
        args == [ocr_confidence |-> page_ocr_confidence,
                 handwriting_pct |-> page_handwriting_pct,
                 is_concentrated |-> st[3].is_concentrated,
                 is_spread_out |-> st[3].is_spread_out,
                 blur_score |-> page_blur_score, resolution |-> page_resolution,
                 stage1_critical |-> flt.stage_results[1].critical_failures,
                 stage2_critical |-> flt.stage_results[2].critical_failures,
                 stage3_critical |-> flt.stage_results[3].critical_failures,
                 image_path |-> TRUE]
        consensus_status == make_consensus_decision(args, orc)
        page_final_score == calculate_final_quality_score(flt.stage_results)
        has_failures == Len(flt.critical_failures) > 0
        page_status_info ==
            PageStatusInfo(consensus_status, page_final_score, has_failures,
                           page_ocr_confidence)
        page_has_critical_failures ==
            IF consensus_status.status = "REJECTED" THEN TRUE ELSE has_failures
    IN IF flt.raised \/ consensus_status.status = "RAISE"
       THEN [PageErrorResult(page_num, total) EXCEPT
                !.oracle_calls = IF flt.raised THEN 0 ELSE consensus_status.calls]
       ELSE [page_number |-> page_num, total_pages |-> total,
             final_quality_score |-> page_final_score,
             has_critical_failures |-> page_has_critical_failures,
             critical_failures |-> flt.critical_failures,
             warnings |-> flt.warnings,
             status |-> page_status_info.status,
             priority |-> page_status_info.priority,
             rule |-> page_status_info.rule,
             ocr_confidence |-> page_ocr_confidence,
             handwriting_percentage |-> page_handwriting_pct,
             stage_results |-> flt.stage_results,
             florence_override |-> consensus_status.florence_override,
             oracle_calls |-> consensus_status.calls, raised |-> FALSE]

\* a selection that looks at the score only
BecomesBestPageByScore(total, page, best, best_score, results) ==
    IF total = 2 THEN page.page_number = 2
    ELSE IF total = 1 THEN page.page_number = 1
    ELSE best = 0 \/ page.final_quality_score > best_score

\* lines 1046-1090: TRUE when the page just appended becomes best_page_result.
\* best is the index of best_page_result before (0: None), best_score is
\* best_page_score.
BecomesBestPage(total, page, best, best_score, results) ==
    IF total = 2 THEN page.page_number = 2
    ELSE IF total = 1 THEN page.page_number = 1
    ELSE IF ~page.has_critical_failures
    THEN \/ best = 0
         \/ results[best].has_critical_failures
         \/ page.final_quality_score > best_score
    ELSE \/ best = 0
         \/ /\ results[best].has_critical_failures
            /\ page.final_quality_score > best_score

\* max(page_results, key=final_quality_score): the first page of maximal score
RECURSIVE FirstMaxIndex(_, _)
FirstMaxIndex(results, i) ==
    IF \A j \in 1..Len(results) :
           results[j].final_quality_score <= results[i].final_quality_score
    THEN i
    ELSE FirstMaxIndex(results, i + 1)

\* a document result that reports the chosen page's verdict only
DocumentResultOfBestPageOnly(total, results, best0) ==
    LET best == IF best0 = 0 THEN FirstMaxIndex(results, 1) ELSE best0
        bp == results[best]
    IN [success |-> TRUE, total_pages |-> total,
        final_quality_score |-> bp.final_quality_score,
        has_critical_failures |-> bp.has_critical_failures,
        critical_failures |-> bp.critical_failures,
        warnings |-> bp.warnings,
        status |-> bp.status, priority |-> bp.priority,
        rejection_reasons |-> IF bp.status # "ACCEPTED"
                              THEN bp.critical_failures \o bp.warnings ELSE <<>>,
        stage_results |-> bp.stage_results,
        best_page |-> bp.page_number,
        florence_override |-> \E i \in 1..Len(results) : results[i].florence_override]

\* a document result whose multi-page override leaves the best page's priority
DocumentResultKeepsPriority(total, results, best0) ==
    LET best == IF best0 = 0 THEN FirstMaxIndex(results, 1) ELSE best0
        bp == results[best]
        passed_pages == {i \in 1..Len(results) : results[i].status = "ACCEPTED"}
        override == total > 2 /\ bp.status # "ACCEPTED" /\ passed_pages # {}
        status == IF override THEN "ACCEPTED" ELSE bp.status
        priority == bp.priority
    IN [success |-> TRUE, total_pages |-> total,
        final_quality_score |-> bp.final_quality_score,
        has_critical_failures |-> bp.has_critical_failures,
        critical_failures |-> bp.critical_failures,
        warnings |-> bp.warnings,
        status |-> status, priority |-> priority,
        rejection_reasons |-> IF status # "ACCEPTED"
                              THEN bp.critical_failures \o bp.warnings ELSE <<>>,
        stage_results |-> bp.stage_results,
        best_page |-> bp.page_number,
        florence_override |-> \E i \in 1..Len(results) : results[i].florence_override]

\* lines 1109-1222: the document result built from the page results
DocumentResult(total, results, best0) ==
    LET best == IF best0 = 0 THEN FirstMaxIndex(results, 1) ELSE best0
        bp == results[best]
        passed_pages == {i \in 1..Len(results) : results[i].status = "ACCEPTED"}
        override == total > 2 /\ bp.status # "ACCEPTED" /\ passed_pages # {}
        status == IF override THEN "ACCEPTED" ELSE bp.status
        priority == IF override THEN "Normal" ELSE bp.priority
    IN [success |-> TRUE, total_pages |-> total,
        final_quality_score |-> bp.final_quality_score,
        has_critical_failures |-> bp.has_critical_failures,
        critical_failures |-> bp.critical_failures,
        warnings |-> bp.warnings,
        status |-> status, priority |-> priority,
        rejection_reasons |-> IF status # "ACCEPTED"
                              THEN bp.critical_failures \o bp.warnings ELSE <<>>,
        stage_results |-> bp.stage_results,
        best_page |-> bp.page_number,
        florence_override |-> \E i \in 1..Len(results) : results[i].florence_override]

\* ---------------------------------------------------------------------
\* Specification of one make_consensus_decision call on arbitrary arguments
\* ---------------------------------------------------------------------
OcrValues == {None, 15, 20, 30, 50, 60, 72, 75, 80, 85}
HandwritingValues == {None, 5, 15, 20, 25, 30, 40, 45, 50}
\* <<is_concentrated, is_spread_out>>: region share < 25, > 50, or between
Distributions == {<<TRUE, FALSE>>, <<FALSE, TRUE>>, <<FALSE, FALSE>>}
BlurValues == {None, 10, 15, 30, 150, 160}
Resolutions == {NoResolution, <<399, 300>>, <<400, 299>>, <<400, 300>>,
                <<1000, 1200>>, <<1200, 900>>}
\* <<stage1_critical, stage2_critical, stage3_critical>>
CriticalLists == {<< <<>>, <<>>, <<>> >>,
                  << <<MsgBlur>>, <<>>, <<>> >>,
                  << <<>>, <<>>, <<MsgHandwriting>> >>,
                  << <<MsgResolution>>, <<>>, <<MsgHandwriting>> >>,
                  << <<>>, <<MsgOcr>>, <<>> >>}
Confidences == {55, 60, 65, 70, 75}
OracleAnswers == {Answer("raise", 0), Answer("error", 0), Answer("handwritten", 99)}
                 \cup {Answer("printed", c) : c \in Confidences}

NoCall == [ocr_confidence |-> None, handwriting_pct |-> None,
           is_concentrated |-> FALSE, is_spread_out |-> FALSE,
           blur_score |-> None, resolution |-> NoResolution,
           stage1_critical |-> <<>>, stage2_critical |-> <<>>,
           stage3_critical |-> <<>>, image_path |-> FALSE]
NoVerdict == Verdict("NONE", "-", "not-called", 0, FALSE)
NoStatusCall == [consensus_status |-> NoVerdict, final_score |-> None,
                 has_critical_failures |-> FALSE, ocr_confidence |-> None]

PagesIdle ==
    /\ image_paths = 0
    /\ page_results = <<>>
    /\ stage_outputs = <<>>
    /\ best_page_result = 0
    /\ best_page_score = None
    /\ result = [success |-> FALSE]
    /\ pc = "start"

CallArguments(ocr, hw, dist, blur, res, crit) ==
    [ocr_confidence |-> ocr, handwriting_pct |-> hw,
     is_concentrated |-> dist[1], is_spread_out |-> dist[2],
     blur_score |-> blur, resolution |-> res,
     stage1_critical |-> crit[1], stage2_critical |-> crit[2],
     stage3_critical |-> crit[3], image_path |-> TRUE]

\* The orchestrator is constructed with or without an oracle and
\* make_consensus_decision is about to be called on some arguments.
InitDecision ==
    /\ florence_classifier \in BOOLEAN
    /\ blur_extreme_threshold = BLUR_EXTREME_THRESHOLD
    /\ \E ocr \in OcrValues, hw \in HandwritingValues, dist \in Distributions,
          blur \in BlurValues, res \in Resolutions, crit \in CriticalLists :
          call = CallArguments(ocr, hw, dist, blur, res, crit)
    /\ oracle_log = <<>>
    /\ verdict = NoVerdict
    /\ dpc = "idle"
    /\ status_call = NoStatusCall
    /\ PagesIdle

\* make_consensus_decision runs and returns (or raises); the oracle answers
\* each invocation as it likes.  oracle_log keeps the answers it was asked for.
CallConsensus ==
    /\ dpc = "idle"
    /\ \E a1 \in OracleAnswers, a2 \in OracleAnswers :
          LET orc == <<a1, a2>>
              v == make_consensus_decision(call, orc)
          IN /\ (v.calls < 2 => a2 = a1)
             /\ (v.calls < 1 => a1 = Answer("raise", 0))
             /\ oracle_log' = SubSeq(orc, 1, v.calls)
             /\ verdict' = v
             /\ dpc' = "returned"
    /\ UNCHANGED <<florence_classifier, blur_extreme_threshold, call,
                   status_call, pvars>>

NextDecision == CallConsensus

SpecDecision == InitDecision /\ [][NextDecision]_vars

\* ---------------------------------------------------------------------
\* Properties of make_consensus_decision (SpecDecision)
\* ---------------------------------------------------------------------
Returned == dpc = "returned"
Known(x) == x # None
AllCritical(a) == a.stage1_critical \o a.stage2_critical \o a.stage3_critical
OracleSaidHandwritten == \E i \in 1..Len(oracle_log) : oracle_log[i].kind = "handwritten"
\* the first oracle invocation gave no approved answer: it raised, carried an
\* error, or said printed below the required confidence
FirstAnswerUnconfirmed ==
    /\ Len(oracle_log) >= 1
    /\ \/ oracle_log[1].kind \in {"raise", "error"}
       \/ /\ oracle_log[1].kind = "printed"
          /\ oracle_log[1].confidence <
                 RequiredConfidence(call.ocr_confidence, call.handwriting_pct)

\* C1: whenever the oracle was consulted during the call and answered
\* is_printed = False without error, the verdict is REJECTED.
C1_HandwrittenAnswerRejects ==
    (Returned /\ OracleSaidHandwritten) => verdict.status = "REJECTED"

\* C4: a known ocr_confidence < 20 gives REJECTED whatever the other arguments.
C4_UnreadableRejected ==
    (Returned /\ Known(call.ocr_confidence) /\ call.ocr_confidence < 20)
        => verdict.status = "REJECTED"

C4_Witness ==
    /\ Returned
    /\ call.ocr_confidence = 15
    /\ call.handwriting_pct = 5
    /\ call.blur_score = 160
    /\ call.resolution = <<1200, 900>>
    /\ verdict.status = "REJECTED"
    /\ verdict.rule = "unreadable"

LowResolution(a) ==
    a.resolution # NoResolution /\ (a.resolution[1] < 400 \/ a.resolution[2] < 300)

HandwritingTierRules ==
    {"high-ocr-florence", "high-ocr-trust", "high-handwriting-florence",
     "high-handwriting-ocr", "borderline-florence", "spread-florence"}

GateOfSomeRule(a) ==
    LET ocr == a.ocr_confidence
        hw == a.handwriting_pct
        blur == a.blur_score
    IN \/ Known(ocr) /\ ocr < 20
       \/ Known(ocr) /\ ocr >= 80 /\ Known(hw) /\ hw >= 40
       \/ Known(hw) /\ hw >= 40
       \/ Known(hw) /\ hw >= 30 /\ hw < 40 /\ Known(ocr) /\ ocr >= 60
       \/ Known(hw) /\ hw >= 25 /\ a.is_spread_out
       \/ LowResolution(a)
       \/ Known(blur) /\ blur < blur_extreme_threshold
       \/ Known(blur) /\ blur < 30 /\ Known(ocr) /\ ocr < 50
       \/ Len(AllCritical(a)) > 0
       \/ /\ Known(ocr) /\ ocr > 80 /\ Known(hw) /\ hw < 15
          /\ Known(blur) /\ blur > 100
          /\ a.resolution # NoResolution /\ a.resolution[1] > 800
       \/ Known(hw) /\ hw > 15 /\ hw < 30 /\ a.is_concentrated
       \/ Known(ocr) /\ ocr > 75 /\ Known(hw) /\ hw > 25 /\ hw < 40
       \/ /\ Known(ocr) /\ ocr < 50 /\ Known(blur) /\ blur > 150
          /\ a.resolution # NoResolution /\ a.resolution[1] > 1000
       \/ Known(hw) /\ hw > 20 /\ Known(ocr) /\ ocr > 70

\* C6: for arguments that satisfy the gate of none of rules 1-13 the call
\* returns None.
C6_AbstainsWhenNoGate ==
    (Returned /\ ~GateOfSomeRule(call)) => verdict.status = "NONE"

\* C7: ocr > 80, handwriting < 15, blur > 100, width > 800, height >= 300 and
\* no stage critical failures give ACCEPTED / High without an oracle call.
C7_ClearAcceptance ==
    ( /\ Returned
      /\ Known(call.ocr_confidence) /\ call.ocr_confidence > 80
      /\ Known(call.handwriting_pct) /\ call.handwriting_pct < 15
      /\ Known(call.blur_score) /\ call.blur_score > 100
      /\ call.resolution # NoResolution
      /\ call.resolution[1] > 800 /\ call.resolution[2] >= 300
      /\ AllCritical(call) = <<>> )
    => /\ verdict.status = "ACCEPTED"
       /\ verdict.priority = "High"
       /\ verdict.calls = 0

C7_Witness ==
    /\ Returned
    /\ call.ocr_confidence = 85
    /\ call.handwriting_pct = 5
    /\ call.blur_score = 150
    /\ call.resolution = <<1000, 1200>>
    /\ AllCritical(call) = <<>>
    /\ verdict.status = "ACCEPTED"
    /\ verdict.priority = "High"

\* C8: handwriting >= 40 with 70 <= ocr < 80 and no oracle confirmation
\* (oracle missing, raising, erroring, or printed below the bar) gives
\* ACCEPTED when ocr >= 75 and REJECTED when ocr < 75.
C8_HighHandwritingWithoutConfirmation ==
    ( /\ Returned
      /\ Known(call.handwriting_pct) /\ call.handwriting_pct >= 40
      /\ Known(call.ocr_confidence)
      /\ call.ocr_confidence >= 70 /\ call.ocr_confidence < 80
      /\ (~florence_classifier \/ FirstAnswerUnconfirmed) )
    => verdict.status = (IF call.ocr_confidence >= 75 THEN "ACCEPTED" ELSE "REJECTED")

C8_Witness ==
    /\ Returned
    /\ call.handwriting_pct = 45
    /\ call.ocr_confidence = 72
    /\ ~florence_classifier
    /\ verdict.status = "REJECTED"

\* ---------------------------------------------------------------------
\* Specification of process_document
\* ---------------------------------------------------------------------
MaxPages == 3

Stage1Outcomes ==
    {Placeholder(1), StageLoadError(1),
     Stage1Process(150, <<1000, 1200>>, FALSE),
     Stage1Process(45, <<1000, 1200>>, FALSE),
     Stage1Process(20, <<1000, 1200>>, FALSE),
     Stage1Process(10, <<1000, 1200>>, FALSE),
     Stage1Process(150, <<300, 200>>, FALSE),
     Stage1Process(150, <<1000, 1200>>, TRUE)}
Stage2Outcomes ==
    {Placeholder(2), StageLoadError(2)}
    \cup {Stage2Process(c) : c \in {15, 45, 55, 72, 85}}
Stage3Outcomes ==
    {Placeholder(3), StageLoadError(3),
     Stage3Process(5, <<FALSE, FALSE>>), Stage3Process(20, <<TRUE, FALSE>>),
     Stage3Process(30, <<FALSE, TRUE>>), Stage3Process(35, <<TRUE, FALSE>>),
     Stage3Process(35, <<FALSE, FALSE>>),
     Stage3Process(45, <<FALSE, FALSE>>)}
Stage4Outcomes == {Placeholder(4), StageLoadError(4), Stage4Process(30)}
PageOracleAnswers ==
    {Answer("error", 0), Answer("handwritten", 99), Answer("printed", 75)}

\* The pages a document of several pages is made of: a clean printed page, an
\* unreadable one, one whose OCR stage raised on a blurry scan, a blurry
\* readable one, a handwritten-looking one, a low-resolution one, a page all
\* of whose stages raised, and a cover page with little text.
MultiPageMix ==
    {<<Stage1Process(150, <<1000, 1200>>, FALSE), Stage2Process(85),
       Stage3Process(5, <<FALSE, FALSE>>), Stage4Process(30)>>,
     <<Stage1Process(150, <<1000, 1200>>, FALSE), Stage2Process(15),
       Stage3Process(5, <<FALSE, FALSE>>), Stage4Process(30)>>,
     <<Stage1Process(20, <<1000, 1200>>, FALSE), Placeholder(2),
       Stage3Process(5, <<FALSE, FALSE>>), Stage4Process(30)>>,
     <<Stage1Process(20, <<1000, 1200>>, FALSE), Stage2Process(55),
       Stage3Process(20, <<TRUE, FALSE>>), Stage4Process(30)>>,
     <<Stage1Process(150, <<1000, 1200>>, FALSE), Stage2Process(72),
       Stage3Process(45, <<FALSE, FALSE>>), Stage4Process(30)>>,
     <<Stage1Process(150, <<300, 200>>, FALSE), Stage2Process(85),
       Stage3Process(5, <<FALSE, FALSE>>), Stage4Process(30)>>,
     <<Placeholder(1), Placeholder(2), Placeholder(3), Placeholder(4)>>,
     <<Stage1Process(45, <<1000, 1200>>, FALSE), Stage2Process(45),
       Stage3Process(5, <<FALSE, FALSE>>), StageLoadError(4)>>}

Init ==
    /\ florence_classifier \in BOOLEAN
    /\ blur_extreme_threshold = BLUR_EXTREME_THRESHOLD
    /\ call = NoCall
    /\ oracle_log = <<>>
    /\ verdict = NoVerdict
    /\ dpc = "idle"
    /\ status_call = NoStatusCall
    /\ PagesIdle

\* lines 808-844: the input is unsupported or cannot be converted, and
\* process_document returns success = False; or it is an image or a PDF of
\* 1..MaxPages pages
RejectInput ==
    /\ pc = "start"
    /\ result' = [success |-> FALSE]
    /\ pc' = "done"
    /\ UNCHANGED <<florence_classifier, blur_extreme_threshold, cvars,
                   image_paths, page_results, stage_outputs, best_page_result,
                   best_page_score>>

OpenDocument ==
    /\ pc = "start"
    /\ \E n \in 1..MaxPages : image_paths' = n
    /\ pc' = "pages"
    /\ UNCHANGED <<florence_classifier, blur_extreme_threshold, cvars,
                   page_results, stage_outputs, best_page_result,
                   best_page_score, result>>

\* lines 846-1107: the next page is processed
PageStep(st, orc) ==
    \E page \in {ProcessPageResult(Len(page_results) + 1, image_paths, st, orc)} :
       LET becomes_best ==
               /\ ~page.raised
               /\ BecomesBestPage(image_paths, page, best_page_result,
                                  best_page_score, page_results)
       IN /\ (page.oracle_calls < 2 => orc[2] = orc[1])
          /\ (page.oracle_calls < 1 => orc[1] = Answer("error", 0))
          /\ page_results' = Append(page_results, page)
          /\ stage_outputs' = Append(stage_outputs, st)
          /\ best_page_result' = IF becomes_best THEN page.page_number
                                 ELSE best_page_result
          /\ best_page_score' = IF becomes_best THEN page.final_quality_score
                                ELSE best_page_score

ProcessPage ==
    /\ pc = "pages"
    /\ Len(page_results) < image_paths
    /\ \E a1 \in PageOracleAnswers, a2 \in PageOracleAnswers :
          IF image_paths = 1
          THEN \E s1 \in Stage1Outcomes, s2 \in Stage2Outcomes,
                  s3 \in Stage3Outcomes, s4 \in Stage4Outcomes :
                  PageStep(<<s1, s2, s3, s4>>, <<a1, a2>>)
          ELSE \E st \in MultiPageMix : PageStep(st, <<a1, a2>>)
    /\ UNCHANGED <<florence_classifier, blur_extreme_threshold, cvars,
                   image_paths, result, pc>>

\* lines 1109-1222: the loop is over and the document result is returned
Finish ==
    /\ pc = "pages"
    /\ Len(page_results) = image_paths
    /\ result' = DocumentResult(image_paths, page_results, best_page_result)
    /\ pc' = "done"
    /\ UNCHANGED <<florence_classifier, blur_extreme_threshold, cvars,
                   image_paths, page_results, stage_outputs, best_page_result,
                   best_page_score>>

Next == RejectInput \/ OpenDocument \/ ProcessPage \/ Finish

Spec == Init /\ [][Next]_vars

\* ---------------------------------------------------------------------
\* Properties of process_document (Spec)
\* ---------------------------------------------------------------------
Done == pc = "done" /\ result.success
PageRaised(i) == page_results[i].raised

\* C2: a 2-page document is reported with best_page = 2 and with the status,
\* priority and final_quality_score of page 2, whatever happened on either page.
C2_TwoPagesReportSecondPage ==
    (Done /\ image_paths = 2) =>
        /\ result.best_page = 2
        /\ result.status = page_results[2].status
        /\ result.priority = page_results[2].priority
        /\ result.final_quality_score = page_results[2].final_quality_score

\* C3: in a document of 3 or more pages, one ACCEPTED entry of page_results
\* makes the document status ACCEPTED, whichever page is best_page.
C3_AnyAcceptedPageAcceptsDocument ==
    (Done /\ image_paths >= 3
          /\ \E i \in 1..Len(page_results) : page_results[i].status = "ACCEPTED")
        => result.status = "ACCEPTED"

C3_Witness ==
    /\ Done
    /\ image_paths >= 3
    /\ page_results[result.best_page].status # "ACCEPTED"
    /\ \E i \in 1..Len(page_results) : page_results[i].status = "ACCEPTED"
    /\ \E i \in 1..Len(page_results) : PageRaised(i)
    /\ result.status = "ACCEPTED"
    /\ result.priority = "Normal"

\* the weighted sum of a page's stage scores, in 1/10000 of a point, a stage
\* without a score contributing 0
ExactSumOf(stage_results) ==
    LET ScoreOf(i) == IF i <= Len(stage_results) /\ stage_results[i].stage_score # None
                      THEN stage_results[i].stage_score ELSE 0
    IN 35 * ScoreOf(1) + 40 * ScoreOf(2) + 20 * ScoreOf(3) + 5 * ScoreOf(4)

\* C9 as stated: every page's final_quality_score is exactly the weighted sum
\* of its stage scores.
C9_ScoreIsExactWeightedSum ==
    \A i \in 1..Len(page_results) :
        100 * page_results[i].final_quality_score
            = ExactSumOf(page_results[i].stage_results)

\* C9 amended: every page's final_quality_score is the weighted sum of its
\* stage scores rounded to 2 decimals (within 0.005 of it), a stage without a
\* score contributing 0; it lies in [0,100]; the document's score is that of
\* best_page; and scores [90,85,100,70] give 89.0.
C9_ScoreIsRoundedWeightedSum ==
    /\ \A i \in 1..Len(page_results) :
          LET score == page_results[i].final_quality_score
              exact == ExactSumOf(page_results[i].stage_results)
          IN /\ 2 * (100 * score - exact) <= 100
             /\ 2 * (exact - 100 * score) <= 100
             /\ score >= 0 /\ score <= 10000
    /\ Done => result.final_quality_score
                   = page_results[result.best_page].final_quality_score
    /\ calculate_final_quality_score(
           <<StageResult(1, "ok", TRUE, 9000, <<>>, <<>>),
             StageResult(2, "ok", TRUE, 8500, <<>>, <<>>),
             StageResult(3, "ok", TRUE, 10000, <<>>, <<>>),
             StageResult(4, "ok", TRUE, 7000, <<>>, <<>>)>>) = 8900

C9_Witness ==
    /\ Done
    /\ \E i \in 1..Len(page_results) :
          /\ ~PageRaised(i)
          /\ ExactSumOf(page_results[i].stage_results) % 100 > 50
          /\ page_results[i].stage_results[2].stage_score = None
          /\ result.best_page = i

\* C10: a successful result has one page result per input page, numbered
\* 1..total_pages in order, and best_page is one of those numbers; it is 1
\* for a 1-page document.
C10_OneResultPerPage ==
    Done =>
        /\ result.total_pages = image_paths
        /\ Len(page_results) = result.total_pages
        /\ \A i \in 1..Len(page_results) :
              /\ page_results[i].page_number = i
              /\ page_results[i].total_pages = result.total_pages
        /\ result.best_page \in 1..result.total_pages
        /\ (result.total_pages = 1 => result.best_page = 1)

C10_Witness ==
    /\ Done
    /\ image_paths = 3
    /\ PageRaised(1) /\ PageRaised(3)
    /\ result.best_page = 2

\* C11: a page whose processing raised is recorded as a placeholder with
\* status REJECTED, priority N/A, score 0 and the error message as its only
\* critical failure; the remaining pages are processed and the document
\* result is a success.
C11_PageErrorPlaceholder ==
    /\ \A i \in 1..Len(page_results) :
          PageRaised(i) =>
              /\ page_results[i].page_number = i
              /\ page_results[i].status = "REJECTED"
              /\ page_results[i].priority = "N/A"
              /\ page_results[i].final_quality_score = 0
              /\ page_results[i].critical_failures = <<MsgPageError>>
    /\ (pc = "done" /\ image_paths > 0) =>
          /\ result.success
          /\ Len(page_results) = image_paths

C11_Witness ==
    /\ Done
    /\ image_paths = 3
    /\ PageRaised(1)
    /\ ~PageRaised(2) /\ page_results[2].status = "ACCEPTED"
    /\ ~PageRaised(3) /\ page_results[3].status = "REJECTED"

StageRaised(i, k) == stage_outputs[i][k].outcome = "raised"

\* C12: when stages raise for a page, each is recorded as a placeholder with
\* passed = false and no failures or warnings, the four stage results are
\* there in the order 1,2,3,4, and the page gets a verdict, not the page-error
\* placeholder.
C12_StageErrorsKeepPageVerdict ==
    \A i \in 1..Len(stage_outputs) :
        (\E k \in 1..4 : StageRaised(i, k)) =>
            /\ Len(stage_outputs[i]) = 4
            /\ \A k \in 1..4 :
                  /\ stage_outputs[i][k].stage = k
                  /\ StageRaised(i, k) =>
                        /\ ~stage_outputs[i][k].passed
                        /\ stage_outputs[i][k].critical_failures = <<>>
                        /\ stage_outputs[i][k].warnings = <<>>
            /\ ~PageRaised(i)

\* ---------------------------------------------------------------------
\* Properties of the oracle protocol (SpecDecision)
\* ---------------------------------------------------------------------
\* every answer the oracle gave during the call was a failure: it raised or
\* returned a result carrying an error (a disabled classifier does the latter)
OracleOnlyFailed ==
    \A i \in 1..Len(oracle_log) : oracle_log[i].kind \in {"raise", "error"}

\* the verdict of the call when _check_florence_override returns None at its
\* first test (line 625, no image path), whatever the oracle
DecisionWithoutOverride(a) ==
    make_consensus_decision([a EXCEPT !.image_path = FALSE],
                            <<Answer("raise", 0), Answer("raise", 0)>>)

SameVerdict(v, w) ==
    /\ v.status = w.status
    /\ v.priority = w.priority
    /\ v.rule = w.rule
    /\ v.florence_override = w.florence_override

\* C13: with the oracle missing, or raising, or returning an error result,
\* the call gives the verdict it gives with no override at all; in
\* particular it raises only where it raises without an oracle, and a
\* missing oracle is never invoked.
C13_OracleFailureIsNoOverride ==
    /\ (Returned /\ (~florence_classifier \/ OracleOnlyFailed))
          => SameVerdict(verdict, DecisionWithoutOverride(call))
    /\ ~florence_classifier => oracle_log = <<>>

C13_Witness ==
    /\ Returned
    /\ florence_classifier
    /\ Len(oracle_log) = 2
    /\ oracle_log[1].kind = "raise"
    /\ oracle_log[2].kind = "error"
    /\ verdict.status = "ACCEPTED"
    /\ ~verdict.florence_override

Statuses == {"ACCEPTED", "REJECTED", "FLAG_FOR_REVIEW"}

\* C14 as stated: every page result and the document result have a status in
\* {ACCEPTED, REJECTED, FLAG_FOR_REVIEW} and a priority in
\* {High, Normal, Low, N/A}.
C14_FourPriorities ==
    /\ \A i \in 1..Len(page_results) :
          /\ page_results[i].status \in Statuses
          /\ page_results[i].priority \in {"High", "Normal", "Low", "N/A"}
    /\ Done => /\ result.status \in Statuses
               /\ result.priority \in {"High", "Normal", "Low", "N/A"}

\* C14 amended: the status is one of the three and the priority one of
\* High, Normal, Medium, Low, N/A; Medium comes with FLAG_FOR_REVIEW only
\* (disagreement zone A).
C14_FivePriorities ==
    /\ \A i \in 1..Len(page_results) :
          /\ page_results[i].status \in Statuses
          /\ page_results[i].priority \in {"High", "Normal", "Medium", "Low", "N/A"}
          /\ page_results[i].priority = "Medium"
                => /\ page_results[i].status = "FLAG_FOR_REVIEW"
                   /\ page_results[i].rule = "zoneA-review"
    /\ Done => /\ result.status \in Statuses
               /\ result.priority \in {"High", "Normal", "Medium", "Low", "N/A"}
               /\ result.priority = "Medium" => result.status = "FLAG_FOR_REVIEW"

C14_Witness ==
    /\ Done
    /\ image_paths = 1
    /\ page_results[1].rule = "zoneA-review"
    /\ result.status = "FLAG_FOR_REVIEW"
    /\ result.priority = "Medium"

\* the page is readable and not extremely blurry: the filter is active
FilterActive(i) ==
    LET ocr == stage_outputs[i][2].average_confidence
        blur == stage_outputs[i][1].blur_score
    IN /\ ocr # None /\ ocr >= 50
       /\ ~(blur # None /\ blur < blur_extreme_threshold)

FilterVeryBlurry(i) ==
    LET blur == stage_outputs[i][1].blur_score
    IN blur # None /\ blur < 30

IsNotBlurWord(f) == ~HasBlurWord(f)
IsNotHandwritingWord(f) == ~HasHandwritingWord(f)

Unconfirmed(i) ==
    \/ oracle_log[i].kind \in {"raise", "error"}
    \/ /\ oracle_log[i].kind = "printed"
       /\ oracle_log[i].confidence
              < RequiredConfidence(call.ocr_confidence, call.handwriting_pct)

NeverConfirmed == \A i \in 1..Len(oracle_log) : Unconfirmed(i)

HighOcrHighHandwriting ==
    /\ Returned
    /\ Known(call.ocr_confidence) /\ call.ocr_confidence >= 80
    /\ Known(call.handwriting_pct) /\ call.handwriting_pct >= 40

HighHandwritingLowOcr ==
    /\ Returned
    /\ Known(call.handwriting_pct) /\ call.handwriting_pct >= 40
    /\ Known(call.ocr_confidence) /\ call.ocr_confidence < 70

\* the call discards handwriting_pct: very blurry page with 30 <= ocr < 50
HandwritingDiscarded ==
    /\ IsVeryBlurry(call)
    /\ Known(call.ocr_confidence)
    /\ call.ocr_confidence >= 30 /\ call.ocr_confidence < 50

\* C17 as stated: handwriting >= 40 with a known ocr < 70 gives REJECTED
\* without consulting the oracle, whatever the blur score.
C17_LowOcrHandwritingRejected ==
    HighHandwritingLowOcr =>
        /\ verdict.status = "REJECTED"
        /\ oracle_log = <<>>

\* C17 amended: handwriting >= 40 with a known ocr < 70 gives REJECTED without
\* consulting the oracle, unless the page is very blurry (blur < 30) with
\* 30 <= ocr < 50: then the handwriting is discarded, the oracle is still not
\* consulted, and the verdict is REJECTED for a low resolution or an extreme
\* blur and FLAG_FOR_REVIEW / Low otherwise.
C17_LowOcrHandwritingRejectedUnlessDiscarded ==
    HighHandwritingLowOcr =>
        /\ oracle_log = <<>>
        /\ IF ~HandwritingDiscarded
           THEN verdict.status = "REJECTED"
           ELSE IF LowResolution(call) \/ call.blur_score < blur_extreme_threshold
           THEN verdict.status = "REJECTED"
           ELSE /\ verdict.status = "FLAG_FOR_REVIEW"
                /\ verdict.priority = "Low"

C17_Witness ==
    /\ HighHandwritingLowOcr
    /\ call.handwriting_pct = 45
    /\ call.ocr_confidence = 30
    /\ call.blur_score = 15
    /\ call.resolution = <<1000, 1200>>
    /\ verdict.status = "FLAG_FOR_REVIEW"

SpreadOutPage ==
    /\ Returned
    /\ call.is_spread_out /\ ~call.is_concentrated
    /\ Known(call.handwriting_pct) /\ call.handwriting_pct >= 25

BlurThresholds == {10, BLUR_EXTREME_THRESHOLD, 40}
TunedOcrValues == {None, 45, 50, 55, 60, 65, 70, 75, 80, 85}
TunedHandwritingValues == {None, 15, 20, 30, 35, 40, 45}
TunedBlurValues == {None, 5, 12, 20, 35, 150}
TunedCriticalLists == {<< <<>>, <<>>, <<>> >>,
                       << <<MsgBlur>>, <<>>, <<>> >>,
                       << <<>>, <<>>, <<MsgHandwriting>> >>}

InitTuned ==
    /\ florence_classifier \in BOOLEAN
    /\ blur_extreme_threshold \in BlurThresholds
    /\ \E ocr \in TunedOcrValues, hw \in TunedHandwritingValues,
          dist \in Distributions, blur \in TunedBlurValues,
          crit \in TunedCriticalLists :
          call = CallArguments(ocr, hw, dist, blur, <<1000, 1200>>, crit)
    /\ oracle_log = <<>>
    /\ verdict = NoVerdict
    /\ dpc = "idle"
    /\ status_call = NoStatusCall
    /\ PagesIdle

SpecTuned == InitTuned /\ [][NextDecision]_vars

ExtremeBlur ==
    /\ Returned
    /\ Known(call.blur_score)
    /\ call.blur_score < blur_extreme_threshold

OracleGate(ocr, hw) ==
    /\ Known(ocr) /\ ocr >= 50
    /\ Known(hw) /\ hw >= 20
    /\ hw >= 40 => ocr >= 70
    /\ (hw >= 35 /\ hw < 40) => ocr >= 65
    /\ (hw >= 30 /\ hw < 35) => ocr >= 60

\* C20: classify_document is invoked only when ocr >= 50 and handwriting >= 20
\* are known, with ocr >= 70 for handwriting >= 40, >= 65 for 35..39 and
\* >= 60 for 30..34; outside the gate there is no invocation and no override.
C20_OracleOnlyInsideGate ==
    Returned =>
        /\ oracle_log # <<>> =>
              /\ florence_classifier
              /\ OracleGate(call.ocr_confidence, call.handwriting_pct)
        /\ ~OracleGate(call.ocr_confidence, call.handwriting_pct) =>
              /\ oracle_log = <<>>
              /\ ~verdict.florence_override

\* the borderline tier asks for handwriting 35 with ocr 60 and the gate
\* refuses; a handwriting failure of stage 3 with handwriting 15 likewise
C20_Witness ==
    /\ Returned
    /\ florence_classifier
    /\ call.handwriting_pct = 35
    /\ call.ocr_confidence = 60
    /\ ~call.is_spread_out
    /\ call.stage3_critical = <<MsgHandwriting>>
    /\ oracle_log = <<>>
    /\ verdict.rule = "critical-filtered"

\* the bar of the claim, in hundredths
ConfidenceBar(ocr, hw) ==
    LET bucket == CASE hw >= 40 -> 75
                    [] hw >= 35 /\ hw < 40 -> 70
                    [] hw >= 30 /\ hw < 35 -> 65
                    [] hw < 30 -> 60
        relief == CASE ocr >= 80 -> 10
                    [] ocr >= 75 /\ ocr < 80 -> 5
                    [] ocr < 75 -> 0
    IN Max(60, bucket - relief)

PrintedAnswer(i) == i \in 1..Len(oracle_log) /\ oracle_log[i].kind = "printed"

ConsensusOutcomes ==
    {Verdict("NONE", "-", "abstain", 0, FALSE),
     Verdict("NONE", "-", "critical-filtered", 1, FALSE),
     Rejected("stage-critical", 0),
     Accepted("High", "clear-acceptance", 0),
     Verdict("FLAG_FOR_REVIEW", "Medium", "zoneA-review", 0, FALSE)}
StatusScores == {0, 4999, 5000, 5499, 5500, 5999, 6000, 6999, 7000, 7499,
                 7500, 8499, 8500, 10000}
StatusOcrValues == {None, 59, 60, 79, 80, 100}

InitStatus ==
    /\ florence_classifier \in BOOLEAN
    /\ blur_extreme_threshold = BLUR_EXTREME_THRESHOLD
    /\ call = NoCall
    /\ oracle_log = <<>>
    /\ verdict = NoVerdict
    /\ dpc = "idle"
    /\ \E c \in ConsensusOutcomes, score \in StatusScores, crit \in BOOLEAN,
          ocr \in StatusOcrValues :
          status_call = [consensus_status |-> c, final_score |-> score,
                         has_critical_failures |-> crit, ocr_confidence |-> ocr]
    /\ PagesIdle

\* the page's status is resolved
ResolvePageStatus ==
    /\ dpc = "idle"
    /\ verdict' = PageStatusInfo(status_call.consensus_status, status_call.final_score,
                                 status_call.has_critical_failures,
                                 status_call.ocr_confidence)
    /\ dpc' = "returned"
    /\ UNCHANGED <<florence_classifier, blur_extreme_threshold, call, oracle_log,
                   status_call, pvars>>

NextStatus == ResolvePageStatus

SpecStatus == InitStatus /\ [][NextStatus]_vars

ScoreRules == {"score-critical", "score-high-ocr", "score-good-ocr",
               "score-accept", "score-review", "score-low"}
ConsensusAbstained == status_call.consensus_status.status = "NONE"

\* C22: determine_status is applied to a page only when
\* make_consensus_decision returned None, and when the page then has a
\* critical failure left its status is REJECTED whatever its final score and
\* OCR confidence.
C22_FallbackRejectsCriticalFailures ==
    Returned =>
        /\ verdict.rule \in ScoreRules => ConsensusAbstained
        /\ ~ConsensusAbstained => verdict = status_call.consensus_status
        /\ (ConsensusAbstained /\ status_call.has_critical_failures) =>
              /\ verdict.status = "REJECTED"
              /\ verdict.rule = "score-critical"

\* a page with final score 85.00 and OCR 100 is rejected for its failures
C22_Witness ==
    /\ Returned
    /\ ConsensusAbstained
    /\ status_call.has_critical_failures
    /\ status_call.final_score = 8500
    /\ status_call.ocr_confidence = 100
    /\ verdict.status = "REJECTED"

FallbackWithoutFailures ==
    /\ Returned
    /\ ConsensusAbstained
    /\ ~status_call.has_critical_failures

\* C23: without critical failures and with the default thresholds,
\* determine_status returns ACCEPTED when (ocr >= 80 and score >= 55) or
\* (ocr >= 60 and score >= 60) or score >= 60; otherwise FLAG_FOR_REVIEW with
\* priority Low when score >= 50; otherwise REJECTED.  An ACCEPTED page has
\* priority High from score 75 in the ocr >= 80 band and from score 85 in
\* every other case, else Normal.
C23_FallbackThresholds ==
    FallbackWithoutFailures =>
        LET ocr == status_call.ocr_confidence
            score == status_call.final_score
            high_ocr == Known(ocr) /\ ocr >= 80
            accepted == \/ high_ocr /\ score >= 5500
                        \/ Known(ocr) /\ ocr >= 60 /\ score >= 6000
                        \/ score >= 6000
        IN /\ accepted =>
                /\ verdict.status = "ACCEPTED"
                /\ verdict.priority =
                      IF high_ocr
                      THEN (IF score >= 7500 THEN "High" ELSE "Normal")
                      ELSE (IF score >= 8500 THEN "High" ELSE "Normal")
           /\ (~accepted /\ score >= 5000) =>
                /\ verdict.status = "FLAG_FOR_REVIEW"
                /\ verdict.priority = "Low"
           /\ (~accepted /\ score < 5000) => verdict.status = "REJECTED"

\* score 55.00 with OCR 80 is accepted with priority Normal
C23_Witness ==
    /\ FallbackWithoutFailures
    /\ status_call.final_score = 5500
    /\ status_call.ocr_confidence = 80
    /\ verdict.status = "ACCEPTED"
    /\ verdict.priority = "Normal"

\* ---------------------------------------------------------------------
\* Properties of the page selection and of the reported verdicts (Spec)
\* ---------------------------------------------------------------------
PagesWithoutFailures ==
    {i \in 1..Len(page_results) : ~page_results[i].has_critical_failures}
SelectionPool ==
    IF PagesWithoutFailures # {} THEN PagesWithoutFailures
    ELSE 1..Len(page_results)

\* C24: for a document of 3 or more pages, best_page names a page of maximal
\* final_quality_score among the pages without critical failures if there is
\* one, and among all pages otherwise.
C24_BestPageOfThreeOrMore ==
    (Done /\ image_paths >= 3) =>
        /\ result.best_page \in SelectionPool
        /\ \A j \in SelectionPool :
              page_results[j].final_quality_score
                 <= page_results[result.best_page].final_quality_score

\* page 2 has critical failures and a higher score than page 1, which has none
C24_Witness ==
    /\ Done
    /\ image_paths = 3
    /\ ~page_results[1].has_critical_failures
    /\ page_results[2].has_critical_failures
    /\ page_results[2].final_quality_score > page_results[1].final_quality_score
    /\ ~page_results[3].has_critical_failures
    /\ page_results[3].final_quality_score > page_results[2].final_quality_score
    /\ result.best_page = 3

StageFailures(i) ==
    stage_outputs[i][1].critical_failures \o stage_outputs[i][2].critical_failures
    \o stage_outputs[i][3].critical_failures \o stage_outputs[i][4].critical_failures
StageWarnings(i) ==
    stage_outputs[i][1].warnings \o stage_outputs[i][2].warnings
    \o stage_outputs[i][3].warnings \o stage_outputs[i][4].warnings
RemovedFailures(i) ==
    Range(StageFailures(i)) \ Range(page_results[i].critical_failures)

\* C25: the false-positive filter never adds a critical failure.  A failure
\* is removed only on a page with ocr_confidence >= 50 whose blur score is not
\* below BLUR_EXTREME_THRESHOLD, and only if it is a blur failure of stage 1 or,
\* when blur_score < 30, a handwriting failure of stage 3; every removal adds
\* a warning to the page.
C25_FilterOnlyRemoves ==
    \A i \in 1..Len(page_results) :
        ~PageRaised(i) =>
            LET removed == RemovedFailures(i)
                blur_removed == {f \in removed : HasBlurWord(f)}
                hw_removed == {f \in removed : HasHandwritingWord(f)}
            IN /\ Range(page_results[i].critical_failures) \subseteq Range(StageFailures(i))
               /\ removed # {} => FilterActive(i)
               /\ removed = blur_removed \cup hw_removed
               /\ blur_removed \subseteq Range(stage_outputs[i][1].critical_failures)
               /\ hw_removed \subseteq Range(stage_outputs[i][3].critical_failures)
               /\ hw_removed # {} => FilterVeryBlurry(i)
               /\ Len(page_results[i].warnings)
                     = Len(StageWarnings(i))
                       + (IF blur_removed # {} THEN 1 ELSE 0)
                       + (IF hw_removed # {} THEN 1 ELSE 0)
               /\ blur_removed # {} =>
                     WarnReadableBlur \in Range(page_results[i].warnings)
               /\ hw_removed # {} =>
                     WarnUnreliableHandwriting \in Range(page_results[i].warnings)

\* a very blurry readable page loses its blur and its handwriting failure
C25_Witness ==
    /\ Len(page_results) = 1
    /\ ~PageRaised(1)
    /\ RemovedFailures(1) = {MsgBlur, MsgHandwriting}
    /\ page_results[1].critical_failures = <<>>
    /\ WarnUnreliableHandwriting \in Range(page_results[1].warnings)

\* ---------------------------------------------------------------------
\* Properties of missing signals and of the oracle protocol (SpecDecision)
\* ---------------------------------------------------------------------
LowOcrBranches == {"blur-unreadable", "blur-format",
                   "signature-low-ocr", "signature-format"}

\* C26: make_consensus_decision completes without raising for every
\* combination of known and None signals, and with ocr_confidence None it
\* never takes a branch gated on a low OCR value (the blur tier's reject for
\* ocr < 30, the signature tier's low-OCR flag).
C26_NoneOcrIsUnknown ==
    Returned =>
        /\ verdict.status # "RAISE"
        /\ ~Known(call.ocr_confidence) => verdict.rule \notin LowOcrBranches

\* C27: classify_document is invoked at most once per page: no call of
\* make_consensus_decision consults the oracle in two tiers.
C27_OracleAtMostOnce ==
    Returned => Len(oracle_log) <= 1 /\ verdict.calls <= 1

\* ---------------------------------------------------------------------
\* Properties relating status, priority and critical failures (Spec)
\* ---------------------------------------------------------------------
\* C28: in every page result and every successful document result, priority
\* is N/A if and only if status is REJECTED, whichever rule, fallback
\* threshold, page-error placeholder or multi-page override gave the status.
C28_NotApplicableIffRejected ==
    /\ \A i \in 1..Len(page_results) :
          page_results[i].priority = "N/A" <=> page_results[i].status = "REJECTED"
    /\ Done => (result.priority = "N/A" <=> result.status = "REJECTED")

\* the best page of three is REJECTED and another page ACCEPTED: the document
\* is ACCEPTED with priority Normal
C28_Witness ==
    /\ Done
    /\ image_paths = 3
    /\ page_results[result.best_page].status = "REJECTED"
    /\ page_results[result.best_page].priority = "N/A"
    /\ \E i \in 1..3 : PageRaised(i)
    /\ result.status = "ACCEPTED"
    /\ result.priority = "Normal"

\* C29: every page result with status REJECTED has has_critical_failures =
\* true, whether a consensus rule, the scoring fallback or a page-processing
\* error rejected it, so the selection among 3 or more pages never prefers a
\* REJECTED page as a page without critical failures.
C29_RejectedPagesHaveFailures ==
    /\ \A i \in 1..Len(page_results) :
          page_results[i].status = "REJECTED" => page_results[i].has_critical_failures
    /\ (Done /\ image_paths >= 3 /\ page_results[result.best_page].status = "REJECTED")
          => page_results[result.best_page].has_critical_failures

\* C30: a successful document result with status ACCEPTED has
\* has_critical_failures = false and an empty critical_failures list, for
\* every page count and every combination of page verdicts.
C30_AcceptedWithoutFailures ==
    (Done /\ result.status = "ACCEPTED") =>
        /\ ~result.has_critical_failures
        /\ result.critical_failures = <<>>

====
